---- MODULE Spec2Model ----
(***************************************************************************)
(* Model of security_dashboard_loader.py: a single-shot batch script that  *)
(* checks and loads three CSV files, coerces dates and derives two columns,*)
(* copies the tables into a SQLite database, runs nine queries, renders    *)
(* nine panels, saves the figure twice and exports the query results.      *)
(*                                                                         *)
(* Each numbered section of the script is one action.  An uncaught Python  *)
(* exception ends the run in pc = "crashed"; the handled exit(1) paths end *)
(* it in pc = "exit1".                                                     *)
(***************************************************************************)
EXTENDS Integers, Sequences, FiniteSets, TLC

VARIABLES
    pc,                 \* position of the script
    fs,                 \* file system: status of each input file
    csv_columns,        \* header of each input file
    csv_rows,           \* records of each input file
    store,              \* whether the database file can be written
    incidents_df, vulnerabilities_df, phishing_df,
    conn,               \* "none", "open", "closed"
    db,                 \* tables held by security_analysis.db
    mttr_df, incident_type_df, vuln_hotspot_df, phishing_trend_df,
    severity_df, vuln_age_df, vuln_age_pivot, vuln_type_df, status_df,
    critical_df,
    panels,             \* what each of the nine axes shows
    outputs,            \* output files created or modified by this run
    diagnostic,         \* what the run printed when it stopped early
    type_counts,        \* grouped incident counts (percentage specification)
    clock,              \* local time, in minutes since midnight of day 0
    run,                \* how many times the script has been started
    images,             \* image files present in the working directory
    saved_at            \* the time each run that saved the figure read

inputs   == <<fs, csv_columns, csv_rows, store>>
frames   == <<incidents_df, vulnerabilities_df, phishing_df>>
results  == <<mttr_df, incident_type_df, vuln_hotspot_df, phishing_trend_df,
              severity_df, vuln_age_df, vuln_age_pivot, vuln_type_df,
              status_df, critical_df>>
session  == <<clock, run>>
archive  == <<images, saved_at>>
vars     == <<pc, inputs, frames, conn, db, results, panels, outputs,
              diagnostic, type_counts, session, archive>>

----------------------------------------------------------------------------
(* Bounds of the model                                                     *)

MaxIncidents == 3       \* rows picked for the incidents file (MTTR family)
MaxTypeRows  == 8       \* rows picked for the incidents file (type family)
MaxVulns     == 4       \* rows picked for the vulnerabilities file
MaxCampaigns == 2       \* rows picked for the phishing file
MaxMinutes   == 2       \* minutes that pass after the first start
MaxRuns      == 2       \* starts of the script in one working directory

----------------------------------------------------------------------------
(* Values                                                                  *)

NULL == -1              \* SQL NULL / NaN in a numeric cell
NaT  == <<>>            \* missing timestamp; also SQL NULL of a date or text

CSV_FILES == {"incidents", "vulnerabilities", "phishing"}

\* the order in which the script walks CSV_FILES and reads the files
FileOrder == <<"incidents", "vulnerabilities", "phishing">>

\* the columns the nine queries read; the files' other columns (identifiers,
\* Date_Resolved, First_Detected, Follow_up_Date) are read by no query and
\* are left out of the modelled header
IncidentColumns == {"Date_Reported", "Severity", "Incident_Type", "Status",
                    "Response_Time_Min"}
VulnColumns     == {"Department", "Severity", "Days_Open", "Solution_Status",
                    "Vulnerability_Title"}
PhishColumns    == {"Launch_Date", "Campaign_Name", "Department",
                    "Click_Rate"}

DB_NAME      == "security_analysis.db"
LATEST_PNG   == "security_dashboard_latest.png"
STAMPED_PNG  == "security_dashboard_<timestamp>.png"
XLSX_NAME    == "dashboard_query_results.xlsx"

EmptyFrame == [columns |-> {}, rows |-> <<>>]
NoDiagnostic == [kind |-> "none", files |-> {}, at |-> "none"]

----------------------------------------------------------------------------
(* Generic helpers                                                         *)

Range(s) == {s[i] : i \in DOMAIN s}

RECURSIVE SumOver(_, _)
\* sum of f[x] over the finite set S
SumOver(S, f) ==
    IF S = {} THEN 0
    ELSE LET x == CHOOSE y \in S : TRUE IN f[x] + SumOver(S \ {x}, f)

RECURSIVE SumSeq(_)
SumSeq(s) == IF s = <<>> THEN 0 ELSE Head(s) + SumSeq(Tail(s))

MaxOf(S) == CHOOSE m \in S : \A x \in S : x <= m

\* the rows of list at the positions of S, in list order
RECURSIVE Pick(_, _)
Pick(list, S) ==
    IF S = {} THEN <<>>
    ELSE LET i == CHOOSE j \in S : \A k \in S : j <= k
         IN <<list[i]>> \o Pick(list, S \ {i})

Picks(list, n) ==
    {Pick(list, S) : S \in {T \in SUBSET DOMAIN list : Cardinality(T) <= n}}

\* the runs of at most n consecutive rows of list
Windows(list, n) ==
    {SubSeq(list, w[1], w[2]) :
        w \in {v \in (1..Len(list)) \X (0..Len(list)) :
                  v[2] - v[1] + 1 \in 0..n}}

\* SQLite ROUND(a / b, ...) on non-negative values: half away from zero
RoundDiv(a, b) == (2 * a + b) \div (2 * b)

----------------------------------------------------------------------------
(* Text of a cell, as a sequence of characters                             *)

Digits == {"0", "1", "2", "3", "4", "5", "6", "7", "8", "9"}

DigitVal(c) ==
    CASE c = "0" -> 0 [] c = "1" -> 1 [] c = "2" -> 2 [] c = "3" -> 3
      [] c = "4" -> 4 [] c = "5" -> 5 [] c = "6" -> 6 [] c = "7" -> 7
      [] c = "8" -> 8 [] c = "9" -> 9

RECURSIVE rstrip(_, _)
\* str.rstrip(ch): drop every trailing ch
rstrip(s, ch) ==
    IF s # <<>> /\ s[Len(s)] = ch THEN rstrip(SubSeq(s, 1, Len(s) - 1), ch)
    ELSE s

\* SQL REPLACE(s, ch, ''): drop every ch
REPLACE(s, ch) == SelectSeq(s, LAMBDA c : c # ch)

\* the text is a decimal literal: digits with at most one point
IsFloatText(s) ==
    /\ \A i \in DOMAIN s : s[i] \in Digits \cup {"."}
    /\ Cardinality({i \in DOMAIN s : s[i] = "."}) <= 1
    /\ \E i \in DOMAIN s : s[i] \in Digits

RECURSIVE Mantissa(_)
Mantissa(s) ==
    IF s = <<>> THEN 0
    ELSE LET c == s[Len(s)]
             m == Mantissa(SubSeq(s, 1, Len(s) - 1))
         IN IF c \in Digits THEN 10 * m + DigitVal(c) ELSE m

\* a number is <<mantissa, fraction digits>>: "12.5" is <<125, 1>>
FloatOf(s) ==
    LET dot == {i \in DOMAIN s : s[i] = "."}
    IN <<Mantissa(s), IF dot = {} THEN 0
                      ELSE Len(s) - (CHOOSE i \in dot : TRUE)>>

\* SQLite CAST(text AS FLOAT): the longest numeric prefix, or 0.0
CastFloat(s) ==
    LET ks == {k \in DOMAIN s : IsFloatText(SubSeq(s, 1, k))}
    IN IF ks = {} THEN <<0, 0>> ELSE FloatOf(SubSeq(s, 1, MaxOf(ks)))

Pow10(n) == IF n = 0 THEN 1 ELSE IF n = 1 THEN 10 ELSE IF n = 2 THEN 100
            ELSE 1000
SameNumber(a, b) == a[1] * Pow10(b[2]) = b[1] * Pow10(a[2])

----------------------------------------------------------------------------
(* Dates                                                                   *)

\* a date cell is <<year, month, day>> when it reads as a date
IsDateText(c) == Len(c) = 3 /\ c[2] \in 1..12 /\ c[3] \in 1..31

\* pd.to_datetime(..., errors='coerce')
to_datetime(c) == IF IsDateText(c) THEN c ELSE NaT

\* strftime('%Y-%m', d) in SQLite: NULL for NULL
strftime_Ym(d) == IF d = NaT THEN NaT ELSE <<d[1], d[2]>>

\* sort key of a month or date text under ORDER BY ... ASC (NULL first)
MonthKey(m) == IF m = NaT THEN 0 ELSE m[1] * 100 + m[2]
DateKey(d)  == IF d = NaT THEN 0 ELSE d[1] * 10000 + d[2] * 100 + d[3]

----------------------------------------------------------------------------
(* Input files the runs are started on                                     *)

Incident(date, sev, type, status, rt) ==
    [Date_Reported |-> date, Severity |-> sev, Incident_Type |-> type,
     Status |-> status, Response_Time_Min |-> rt]

Vuln(dept, sev, days, status, title) ==
    [Department |-> dept, Severity |-> sev, Days_Open |-> days,
     Solution_Status |-> status, Vulnerability_Title |-> title]

Campaign(date, name, dept, rate) ==
    [Launch_Date |-> date, Campaign_Name |-> name, Department |-> dept,
     Click_Rate |-> rate]

\* incident records that differ in month, severity, status and response
\* time; the last two carry a report date that does not read as a date
IncidentChoices == <<
    Incident(<<2024, 1, 5>>,  "Critical", "Malware",  "Resolved", 30),
    Incident(<<2024, 1, 9>>,  "Low",      "Malware",  "Resolved", 60),
    Incident(<<2024, 1, 20>>, "Low",      "Phishing", "Resolved", 90),
    Incident(<<2024, 2, 3>>,  "Critical", "Phishing", "Resolved", 45),
    Incident(<<2024, 2, 7>>,  "Low",      "Malware",  "Open",     30),
    Incident(<<2024, 1, 11>>, "High",     "Malware",  "Resolved", NULL),
    Incident(<<2024, 13, 45>>, "Low",     "Phishing", "Resolved", 30),
    Incident(<<>>,            "Critical", "Malware",  "Resolved", 60) >>

TypeRow(type) == Incident(<<2024, 1, 5>>, "Low", type, "Resolved", 30)

\* incident records that differ in type only: seven types, three repeated
TypeChoices == <<
    TypeRow("Malware"), TypeRow("Phishing"), TypeRow("DDoS"),
    TypeRow("Phishing"), TypeRow("Ransomware"), TypeRow("Insider"),
    TypeRow("Data Leak"), TypeRow("Unauthorized Access"),
    TypeRow("Malware"), TypeRow("Phishing") >>

VulnChoices == <<
    Vuln("IT", "Critical", 10,   "Open",   "SQL Injection"),
    Vuln("IT", "Low",      29,   "Open",   "SQL Injection"),
    Vuln("IT", "Low",      30,   "Open",   "SQL Injection"),
    Vuln("IT", "High",     45,   "Open",   "SQL Injection"),
    Vuln("IT", "Low",      90,   "Open",   "SQL Injection"),
    Vuln("IT", "Low",      91,   "Open",   "SQL Injection"),
    Vuln("IT", "Low",      95,   "Open",   "SQL Injection"),
    Vuln("IT", "Low",      180,  "Open",   "SQL Injection"),
    Vuln("IT", "Low",      181,  "Open",   "SQL Injection"),
    Vuln("IT", "Low",      200,  "Open",   "Weak Password"),
    Vuln("HR", "Critical", 45,   "Open",   "Weak Password"),
    Vuln("HR", "Low",      NULL, "Open",   "SQL Injection"),
    Vuln("IT", "Critical", 10,   "Closed", "SQL Injection"),
    Vuln("HR", "Low",      200,  "Closed", "Weak Password") >>

PhishChoices == <<
    Campaign(<<2024, 1, 10>>, "Q1 Invoice", "IT",
             <<"1", "2", ".", "5", "%">>),
    Campaign(<<2024, 2, 10>>, "Q1 Payroll", "HR", <<"1", "0", "0", "%">>),
    Campaign(<<2024, 3, 10>>, "Q1 Parcel",  "IT", <<"1", "2", ".", "5">>),
    Campaign(<<2024, 4, 10>>, "Q2 Invoice", "HR", <<"a", "b", "c">>),
    Campaign(<<2024, 5, 10>>, "Q2 Payroll", "IT", <<"1", "2", "%", "5">>),
    Campaign(<<2024, 6, 10>>, "Q2 Parcel",  "HR", <<"%">>),
    Campaign(<<2024, 7, 10>>, "Q3 Invoice", "IT", <<"5", "%", "%">>) >>

DefaultIncidents == Pick(IncidentChoices, {1, 2, 4})
DefaultVulns     == Pick(VulnChoices, {1, 4})
DefaultCampaigns == Pick(PhishChoices, {1, 2})

FullColumns ==
    [f \in CSV_FILES |-> CASE f = "incidents" -> IncidentColumns
                           [] f = "vulnerabilities" -> VulnColumns
                           [] f = "phishing" -> PhishColumns]

DefaultRows ==
    [f \in CSV_FILES |-> CASE f = "incidents" -> DefaultIncidents
                           [] f = "vulnerabilities" -> DefaultVulns
                           [] f = "phishing" -> DefaultCampaigns]

\* a file whose header lacks the columns of dropped has no such cells
WithoutColumns(rows, dropped) ==
    [i \in DOMAIN rows |->
        [c \in (DOMAIN rows[i]) \ dropped |-> rows[i][c]]]

\* the state the script starts in, whatever the input files are
Fresh ==
    /\ incidents_df = EmptyFrame
    /\ vulnerabilities_df = EmptyFrame
    /\ phishing_df = EmptyFrame
    /\ conn = "none"
    /\ db = <<>>
    /\ mttr_df = <<>> /\ incident_type_df = <<>> /\ vuln_hotspot_df = <<>>
    /\ phishing_trend_df = <<>> /\ severity_df = {} /\ vuln_age_df = <<>>
    /\ vuln_age_pivot = [index |-> <<>>, columns |-> <<>>, cell |-> <<>>]
    /\ vuln_type_df = <<>> /\ status_df = {} /\ critical_df = <<>>
    /\ panels = [p \in 1..9 |-> "blank"]
    /\ outputs = {}
    /\ diagnostic = NoDiagnostic

\* runs on files that may be missing or unreadable, on headers that may lack
\* an optional column, and on a database file that may not be writable
InitFiles ==
    /\ fs \in [CSV_FILES -> {"ok", "missing", "unreadable"}]
    /\ \E dropped \in SUBSET {"Response_Time_Min", "Click_Rate"} :
          /\ csv_columns = [f \in CSV_FILES |-> FullColumns[f] \ dropped]
          /\ csv_rows = [f \in CSV_FILES |->
                            WithoutColumns(DefaultRows[f], dropped)]
    /\ store \in {"writable", "locked"}

ReadableFiles ==
    /\ fs = [f \in CSV_FILES |-> "ok"]
    /\ csv_columns = FullColumns
    /\ store = "writable"

InitIncidents ==
    /\ ReadableFiles
    /\ \E rows \in Picks(IncidentChoices, MaxIncidents)
                     \cup Windows(TypeChoices, MaxTypeRows) :
          csv_rows = [DefaultRows EXCEPT !["incidents"] = rows]

InitVulns ==
    /\ ReadableFiles
    /\ \E rows \in Picks(VulnChoices, MaxVulns) :
          csv_rows = [DefaultRows EXCEPT !["vulnerabilities"] = rows]

InitPhishing ==
    /\ ReadableFiles
    /\ \E rows \in Picks(PhishChoices, MaxCampaigns) :
          csv_rows = [DefaultRows EXCEPT !["phishing"] = rows]

\* the first start of the script, in a working directory that holds no image
FirstRun ==
    /\ clock = 9 * 60 + 58
    /\ run = 1
    /\ images = {}
    /\ saved_at = <<>>

Init ==
    /\ Fresh
    /\ FirstRun
    /\ pc = "check_files"
    /\ type_counts = <<>>
    /\ (InitFiles \/ InitIncidents \/ InitVulns \/ InitPhishing)

----------------------------------------------------------------------------
(* 1. Configuration and data loading                                       *)

missing_files == {f \in CSV_FILES : fs[f] = "missing"}

\* lines 37-46: list every missing file and exit(1)
CheckFiles ==
    /\ pc = "check_files"
    /\ IF missing_files # {}
       THEN /\ diagnostic' = [kind |-> "missing_files",
                              files |-> missing_files, at |-> "check_files"]
            /\ pc' = "exit1"
       ELSE /\ pc' = "load_csv"
            /\ UNCHANGED diagnostic
    /\ UNCHANGED <<session, archive>>
    /\ UNCHANGED <<inputs, frames, conn, db, results, panels, outputs,
                   type_counts>>

read_csv(f) == [columns |-> csv_columns[f], rows |-> csv_rows[f]]

\* the first file, in reading order, that pd.read_csv fails on
FirstUnreadable ==
    LET bad == {i \in DOMAIN FileOrder : fs[FileOrder[i]] = "unreadable"}
    IN FileOrder[CHOOSE i \in bad : \A j \in bad : i <= j]

\* lines 48-61: read the three files; any exception is printed as
\* "ERROR loading CSV files: {e}" and the run exits.  The message is the
\* exception's text: an OS error names the path, a parser error does not.
LoadCSV ==
    /\ pc = "load_csv"
    /\ IF \E f \in CSV_FILES : fs[f] = "unreadable"
       THEN /\ \E named \in {{}, {FirstUnreadable}} :
                  diagnostic' = [kind |-> "load_error", files |-> named,
                                 at |-> "load_csv"]
            /\ pc' = "exit1"
            /\ UNCHANGED frames
       ELSE /\ incidents_df' = read_csv("incidents")
            /\ vulnerabilities_df' = read_csv("vulnerabilities")
            /\ phishing_df' = read_csv("phishing")
            /\ pc' = "preprocess"
            /\ UNCHANGED diagnostic
    /\ UNCHANGED <<session, archive>>
    /\ UNCHANGED <<inputs, conn, db, results, panels, outputs, type_counts>>

----------------------------------------------------------------------------
(* 2. Data validation and preprocessing                                    *)

date_columns ==
    [f \in CSV_FILES |-> CASE f = "incidents" -> {"Date_Reported",
                                                   "Date_Resolved"}
                           [] f = "vulnerabilities" -> {"First_Detected"}
                           [] f = "phishing" -> {"Launch_Date",
                                                 "Follow_up_Date"}]

\* lines 75-78: every configured date column the frame has is coerced
CoerceDates(df, f) ==
    [df EXCEPT !.rows =
        [i \in DOMAIN df.rows |->
            [c \in DOMAIN df.rows[i] |->
                IF c \in date_columns[f] /\ c \in df.columns
                THEN to_datetime(df.rows[i][c]) ELSE df.rows[i][c]]]]

\* hours as the fraction <<minutes, 60>>; NaN stays missing
Hours(rt) == IF rt = NULL THEN NaT ELSE <<rt, 60>>

\* lines 81-82
AddResponseHours(df) ==
    IF "Response_Time_Min" \in df.columns
    THEN [columns |-> df.columns \cup {"Response_Time_Hours"},
          rows |-> [i \in DOMAIN df.rows |->
                      df.rows[i] @@ [Response_Time_Hours |->
                                     Hours(df.rows[i].Response_Time_Min)]]]
    ELSE df

\* read_csv gives a column in which every cell reads as a number a numeric
\* dtype, and Series.str raises AttributeError on such a column
NumericDtype(df, c) ==
    df.rows # <<>> /\ \A i \in DOMAIN df.rows : IsFloatText(df.rows[i][c])

\* line 85: str.rstrip('%') then astype(float)
ClickRatePercent(text) == FloatOf(rstrip(text, "%"))

\* astype(float) raises ValueError on a cell that is no number once stripped
ClickRateRaises(df) ==
    \/ NumericDtype(df, "Click_Rate")
    \/ \E i \in DOMAIN df.rows :
          ~IsFloatText(rstrip(df.rows[i].Click_Rate, "%"))

\* lines 84-85
AddClickRatePercent(df) ==
    IF "Click_Rate" \in df.columns
    THEN [columns |-> df.columns \cup {"Click_Rate_Percent"},
          rows |-> [i \in DOMAIN df.rows |->
                      df.rows[i] @@ [Click_Rate_Percent |->
                                 ClickRatePercent(df.rows[i].Click_Rate)]]]
    ELSE df

\* lines 66-87; the ValueError or AttributeError of line 85 is not caught
Preprocess ==
    /\ pc = "preprocess"
    /\ incidents_df' = AddResponseHours(CoerceDates(incidents_df,
                                                    "incidents"))
    /\ vulnerabilities_df' = CoerceDates(vulnerabilities_df,
                                         "vulnerabilities")
    /\ LET coerced == CoerceDates(phishing_df, "phishing")
       IN IF "Click_Rate" \in coerced.columns /\ ClickRateRaises(coerced)
          THEN /\ phishing_df' = coerced
               /\ diagnostic' = [kind |-> "traceback", files |-> {},
                                 at |-> "preprocess"]
               /\ pc' = "crashed"
          ELSE /\ phishing_df' = AddClickRatePercent(coerced)
               /\ pc' = "create_db"
               /\ UNCHANGED diagnostic
    /\ UNCHANGED <<session, archive>>
    /\ UNCHANGED <<inputs, conn, db, results, panels, outputs, type_counts>>

----------------------------------------------------------------------------
(* 3. SQLite database                                                      *)

\* lines 94-102: connect, then replace the three tables.  to_sql raises
\* when the database file cannot be written; nothing catches it and the
\* connection stays open.
CreateDatabase ==
    /\ pc = "create_db"
    /\ conn' = "open"
    /\ IF store = "locked"
       THEN /\ diagnostic' = [kind |-> "traceback", files |-> {},
                              at |-> "create_db"]
            /\ pc' = "crashed"
            /\ UNCHANGED <<db, outputs>>
       ELSE /\ db' = [incidents |-> incidents_df,
                      vulnerabilities |-> vulnerabilities_df,
                      phishing_campaigns |-> phishing_df]
            /\ outputs' = outputs \cup {DB_NAME}
            /\ pc' = "queries"
            /\ UNCHANGED diagnostic
    /\ UNCHANGED <<session, archive>>
    /\ UNCHANGED <<inputs, frames, results, panels, type_counts>>

----------------------------------------------------------------------------
(* 4. Dashboard queries                                                    *)

\* every way ORDER BY key ASC LIMIT n may return the members of S: SQL
\* leaves the order of rows with equal keys open
RECURSIVE OrderBy(_, _, _)
OrderBy(S, key, n) ==
    IF S = {} \/ n = 0 THEN {<<>>}
    ELSE LET first == {x \in S : \A y \in S : key[x] <= key[y]}
         IN UNION {{<<x>> \o rest : rest \in OrderBy(S \ {x}, key, n - 1)} :
                      x \in first}

\* BINARY collation of the department names of the input files
TextRank(t) == CASE t = "HR" -> 1 [] t = "IT" -> 2

\* a query raises "no such column" when the table lacks a column it names
HasColumns(t, cols) == cols \subseteq t.columns

\* --- Query 1, lines 109-121 ---
mttr_columns == {"Date_Reported", "Severity", "Response_Time_Min", "Status"}

mttr_query(t) ==
    LET sel == {i \in DOMAIN t.rows :
                   /\ t.rows[i].Status = "Resolved"
                   /\ t.rows[i].Response_Time_Min # NULL}
        MonthOf(i) == strftime_Ym(t.rows[i].Date_Reported)
        months == {MonthOf(i) : i \in sel}
        Group(m) == {i \in sel : MonthOf(i) = m}
        Row(m) ==
            [Month |-> m,
             Total_Incidents |-> Cardinality(Group(m)),
             Critical_Incidents |->
                 Cardinality({i \in Group(m) :
                                 t.rows[i].Severity = "Critical"}),
             \* in tenths of an hour
             Avg_Response_Hours |->
                 RoundDiv(10 * SumOver(Group(m),
                              [i \in Group(m) |->
                                  t.rows[i].Response_Time_Min]),
                          60 * Cardinality(Group(m)))]
        rows == {Row(m) : m \in months}
    IN OrderBy(rows, [r \in rows |-> MonthKey(r.Month)], Cardinality(rows))

\* --- Query 2, lines 123-134 ---
incident_type_columns == {"Incident_Type"}

TOP_TYPES == 6

\* COUNT(*) per Incident_Type
GroupCount(t) ==
    LET types == {t.rows[i].Incident_Type : i \in DOMAIN t.rows}
    IN [ty \in types |->
           Cardinality({i \in DOMAIN t.rows :
                           t.rows[i].Incident_Type = ty})]

\* Percentage cut off after the first decimal instead of rounded
Percentage_truncated(count, total) == (count * 1000) \div total

\* ROUND(COUNT(*) * 100.0 / (SELECT COUNT(*) FROM incidents), 1), in tenths
Percentage(count, total) == RoundDiv(count * 1000, total)

\* incident_type_query with ORDER BY Count ASC
incident_type_query_ascending(counts) ==
    LET total == SumOver(DOMAIN counts, counts)
        rows == {[Incident_Type |-> ty, Count |-> counts[ty],
                  Percentage |-> Percentage(counts[ty], total)] :
                    ty \in DOMAIN counts}
    IN OrderBy(rows, [r \in rows |-> r.Count], TOP_TYPES)

\* ORDER BY Count DESC LIMIT 6 over the grouped counts
incident_type_query(counts) ==
    LET total == SumOver(DOMAIN counts, counts)
        rows == {[Incident_Type |-> ty, Count |-> counts[ty],
                  Percentage |-> Percentage(counts[ty], total)] :
                    ty \in DOMAIN counts}
    IN OrderBy(rows, [r \in rows |-> 0 - r.Count], TOP_TYPES)

\* --- Query 3, lines 136-149 ---
vuln_hotspot_columns == {"Department", "Severity", "Days_Open",
                         "Solution_Status"}

TOP_DEPARTMENTS == 5

vuln_hotspot_query(t) ==
    LET sel == {i \in DOMAIN t.rows : t.rows[i].Solution_Status = "Open"}
        depts == {t.rows[i].Department : i \in sel}
        Group(d) == {i \in sel : t.rows[i].Department = d}
        Known(d) == {i \in Group(d) : t.rows[i].Days_Open # NULL}
        Row(d) ==
            [Department |-> d,
             Total_Vulnerabilities |-> Cardinality(Group(d)),
             Critical_Count |->
                 Cardinality({i \in Group(d) :
                                 t.rows[i].Severity = "Critical"}),
             \* AVG skips NULL; in tenths of a day
             Avg_Days_Open |->
                 IF Known(d) = {} THEN NULL
                 ELSE RoundDiv(10 * SumOver(Known(d),
                                   [i \in Known(d) |->
                                       t.rows[i].Days_Open]),
                               Cardinality(Known(d)))]
        rows == {Row(d) : d \in depts}
    IN OrderBy(rows, [r \in rows |-> 0 - r.Critical_Count], TOP_DEPARTMENTS)

\* --- Query 4, lines 151-162 ---
phishing_trend_columns == {"Launch_Date", "Campaign_Name", "Department",
                           "Click_Rate"}

phishing_trend_query(t) ==
    LET Row(i) ==
            [Launch_Date |-> to_datetime(t.rows[i].Launch_Date),
             Campaign_Name |-> t.rows[i].Campaign_Name,
             Department |-> t.rows[i].Department,
             Click_Rate_Percent |->
                 CastFloat(REPLACE(t.rows[i].Click_Rate, "%"))]
        orders == OrderBy(DOMAIN t.rows,
                          [i \in DOMAIN t.rows |->
                              DateKey(t.rows[i].Launch_Date)],
                          Len(t.rows))
    IN {[k \in DOMAIN o |-> Row(o[k])] : o \in orders}

\* --- Query 5, lines 164-166: no ORDER BY, the rows are kept as a set ---
severity_columns == {"Severity"}

severity_query(t) ==
    {[Severity |-> s,
      Count |-> Cardinality({i \in DOMAIN t.rows :
                                t.rows[i].Severity = s})] :
        s \in {t.rows[i].Severity : i \in DOMAIN t.rows}}

\* --- Query 6, lines 168-192 ---
vuln_age_columns == {"Department", "Days_Open", "Solution_Status"}

AgeGroups == <<"< 30 days", "30-90 days", "91-180 days", "> 180 days">>

\* Age_Group with the upper bound of the second band exclusive
Age_Group_exclusive(days) ==
    IF days # NULL /\ days < 30 THEN "< 30 days"
    ELSE IF days # NULL /\ 30 <= days /\ days < 90 THEN "30-90 days"
    ELSE IF days # NULL /\ 91 <= days /\ days <= 180 THEN "91-180 days"
    ELSE "> 180 days"

\* the CASE of lines 172-177; a NULL operand fails every WHEN
Age_Group(days) ==
    IF days # NULL /\ days < 30 THEN "< 30 days"
    ELSE IF days # NULL /\ 30 <= days /\ days <= 90 THEN "30-90 days"
    ELSE IF days # NULL /\ 91 <= days /\ days <= 180 THEN "91-180 days"
    ELSE "> 180 days"

\* the CASE of lines 184-189
AgeGroupOrder(g) ==
    CASE g = "< 30 days" -> 1 [] g = "30-90 days" -> 2
      [] g = "91-180 days" -> 3 [] OTHER -> 4

vuln_age_query(t) ==
    LET sel == {i \in DOMAIN t.rows : t.rows[i].Solution_Status = "Open"}
        keys == {<<t.rows[i].Department, Age_Group(t.rows[i].Days_Open)>> :
                    i \in sel}
        Row(k) ==
            [Department |-> k[1], Age_Group |-> k[2],
             Count |-> Cardinality({i \in sel :
                          /\ t.rows[i].Department = k[1]
                          /\ Age_Group(t.rows[i].Days_Open) = k[2]})]
        rows == {r \in {Row(k) : k \in keys} : r.Count > 0}
    IN OrderBy(rows,
               [r \in rows |-> 10 * TextRank(r.Department)
                                + AgeGroupOrder(r.Age_Group)],
               Cardinality(rows))

\* sort order of the band labels as text: '3' < '9' < '<' < '>'
LabelRank(g) ==
    CASE g = "30-90 days" -> 1 [] g = "91-180 days" -> 2
      [] g = "< 30 days" -> 3 [] g = "> 180 days" -> 4

\* the members of S as a sequence in ascending key order (keys distinct)
Sorted(S, key) == CHOOSE o \in OrderBy(S, key, Cardinality(S)) : TRUE

\* line 192: DataFrame.pivot(...).fillna(0).  pivot labels the rows and
\* the columns with the sorted distinct values that occur in the frame.
pivot(df) ==
    LET depts == {df[i].Department : i \in DOMAIN df}
        groups == {df[i].Age_Group : i \in DOMAIN df}
        Cell(d, g) ==
            LET hit == {i \in DOMAIN df : df[i].Department = d
                                          /\ df[i].Age_Group = g}
            IN IF hit = {} THEN 0 ELSE df[CHOOSE i \in hit : TRUE].Count
    IN [index |-> Sorted(depts, [d \in depts |-> TextRank(d)]),
        columns |-> Sorted(groups, [g \in groups |-> LabelRank(g)]),
        cell |-> [k \in depts \X groups |-> Cell(k[1], k[2])]]

\* --- Query 7, lines 194-206 ---
vuln_type_columns == {"Vulnerability_Title", "Solution_Status"}

TOP_TITLES == 5

\* title[:25] + '...', kept symbolic
Short_Title(title) == [prefix_of |-> title, chars |-> 25, then |-> "..."]

vuln_type_query(t) ==
    LET sel == {i \in DOMAIN t.rows : t.rows[i].Solution_Status = "Open"}
        titles == {t.rows[i].Vulnerability_Title : i \in sel}
        rows == {[Vulnerability_Title |-> ti,
                  Count |-> Cardinality({i \in sel :
                               t.rows[i].Vulnerability_Title = ti}),
                  Short_Title |-> Short_Title(ti)] : ti \in titles}
    IN OrderBy(rows, [r \in rows |-> 0 - r.Count], TOP_TITLES)

\* --- Query 8, lines 208-216: no ORDER BY, the rows are kept as a set ---
status_columns == {"Solution_Status"}

status_query(t) ==
    {[Solution_Status |-> s,
      Count |-> Cardinality({i \in DOMAIN t.rows :
                                t.rows[i].Solution_Status = s})] :
        s \in {t.rows[i].Solution_Status : i \in DOMAIN t.rows}}

\* --- Query 9, lines 218-229 ---
critical_vuln_columns == {"Department", "Severity", "Solution_Status"}

critical_vuln_query(t) ==
    LET sel == {i \in DOMAIN t.rows :
                   /\ t.rows[i].Severity = "Critical"
                   /\ t.rows[i].Solution_Status = "Open"}
        depts == {t.rows[i].Department : i \in sel}
        rows == {[Department |-> d,
                  Critical_Count |->
                      Cardinality({i \in sel : t.rows[i].Department = d})] :
                    d \in depts}
    IN OrderBy(rows, [r \in rows |-> 0 - r.Critical_Count], TOP_DEPARTMENTS)

\* the nine queries in the order the script runs them: table and columns
Queries == <<
    [table |-> "incidents",          columns |-> mttr_columns],
    [table |-> "incidents",          columns |-> incident_type_columns],
    [table |-> "vulnerabilities",    columns |-> vuln_hotspot_columns],
    [table |-> "phishing_campaigns", columns |-> phishing_trend_columns],
    [table |-> "incidents",          columns |-> severity_columns],
    [table |-> "vulnerabilities",    columns |-> vuln_age_columns],
    [table |-> "vulnerabilities",    columns |-> vuln_type_columns],
    [table |-> "vulnerabilities",    columns |-> status_columns],
    [table |-> "vulnerabilities",    columns |-> critical_vuln_columns] >>

\* pd.read_sql_query raises on query k
Raises(k) == ~HasColumns(db[Queries[k].table], Queries[k].columns)

\* the script reaches query k and it returns
Ran(k) == \A j \in 1..k : ~Raises(j)

\* lines 107-232: the nine queries in order, then conn.close().  The first
\* query that raises ends the run; the results before it are assigned and
\* conn.close() is not reached.
ExecuteQueries ==
    /\ pc = "queries"
    /\ mttr_df' \in
          IF Ran(1) THEN mttr_query(db.incidents) ELSE {mttr_df}
    /\ incident_type_df' \in
          IF Ran(2) THEN incident_type_query(GroupCount(db.incidents))
          ELSE {incident_type_df}
    /\ vuln_hotspot_df' \in
          IF Ran(3) THEN vuln_hotspot_query(db.vulnerabilities)
          ELSE {vuln_hotspot_df}
    /\ phishing_trend_df' \in
          IF Ran(4) THEN phishing_trend_query(db.phishing_campaigns)
          ELSE {phishing_trend_df}
    /\ severity_df' =
          IF Ran(5) THEN severity_query(db.incidents) ELSE severity_df
    /\ vuln_age_df' \in
          IF Ran(6) THEN vuln_age_query(db.vulnerabilities)
          ELSE {vuln_age_df}
    /\ vuln_age_pivot' =
          IF Ran(6) THEN pivot(vuln_age_df') ELSE vuln_age_pivot
    /\ vuln_type_df' \in
          IF Ran(7) THEN vuln_type_query(db.vulnerabilities)
          ELSE {vuln_type_df}
    /\ status_df' =
          IF Ran(8) THEN status_query(db.vulnerabilities) ELSE status_df
    /\ critical_df' \in
          IF Ran(9) THEN critical_vuln_query(db.vulnerabilities)
          ELSE {critical_df}
    /\ IF Ran(9)
       THEN /\ conn' = "closed"
            /\ pc' = "render"
            /\ UNCHANGED diagnostic
       ELSE /\ diagnostic' = [kind |-> "traceback", files |-> {},
                              at |-> "queries"]
            /\ pc' = "crashed"
            /\ UNCHANGED conn
    /\ type_counts' =
          IF Ran(2) THEN GroupCount(db.incidents) ELSE type_counts
    /\ UNCHANGED <<session, archive>>
    /\ UNCHANGED <<inputs, frames, db, panels, outputs>>

----------------------------------------------------------------------------
(* 5. Visual dashboard                                                     *)

\* DataFrame.empty of the pivoted frame: an axis of length zero
PivotEmpty(m) == m.index = <<>> \/ m.columns = <<>>

\* critical_df['Critical_Count'].sum()
CriticalSum(df) == SumSeq([i \in DOMAIN df |-> df[i].Critical_Count])

\* lines 247-392: what each axes call leaves on its panel.  Panels 1-5 and
\* 8 plot their table unconditionally; panels 6, 7 and 9 test for an empty
\* table first and write a text instead.
PanelState(p) ==
    CASE p = 6 -> IF ~PivotEmpty(vuln_age_pivot) THEN "chart"
                  ELSE "No data"
      [] p = 7 -> IF vuln_type_df # <<>> THEN "chart" ELSE "No data"
      [] p = 9 -> IF critical_df # <<>> /\ CriticalSum(critical_df) > 0
                  THEN "chart" ELSE "No critical"
      [] OTHER -> "chart"

Render ==
    /\ pc = "render"
    /\ panels' = [p \in 1..9 |-> PanelState(p)]
    /\ pc' = "save"
    /\ UNCHANGED <<session, archive>>
    /\ UNCHANGED <<inputs, frames, conn, db, results, outputs, diagnostic,
                   type_counts>>

----------------------------------------------------------------------------
(* 6. Save the dashboard, 7. save the query results                        *)

\* the time to the hour only, "%Y%m%d_%H"
strftime_YmdH(now) == <<now \div 1440, (now % 1440) \div 60, 0>>

\* line 402: the local time to the minute, "%Y%m%d_%H%M"; the date is the
\* day number, the seconds are dropped
strftime_YmdHM(now) == <<now \div 1440, (now % 1440) \div 60, now % 60>>

\* line 403: f'security_dashboard_{timestamp}.png'
dashboard_filename(timestamp) == <<"security_dashboard_", timestamp, ".png">>

\* line 405: the fixed name, as a file of the working directory
latest_filename == <<LATEST_PNG>>

\* lines 401-408: two savefig calls; a file that exists is overwritten
SaveFigure ==
    /\ pc = "save"
    /\ outputs' = outputs \cup {STAMPED_PNG, LATEST_PNG}
    /\ images' = images \cup {dashboard_filename(strftime_YmdHM(clock)),
                              latest_filename}
    /\ saved_at' = Append(saved_at, clock)
    /\ pc' = "export"
    /\ UNCHANGED session
    /\ UNCHANGED <<inputs, frames, conn, db, results, panels, diagnostic,
                   type_counts>>

\* lines 419-430: nine sheets, one per query result
Export ==
    /\ pc = "export"
    /\ outputs' = outputs \cup {XLSX_NAME}
    /\ pc' = "done"
    /\ UNCHANGED <<session, archive>>
    /\ UNCHANGED <<inputs, frames, conn, db, results, panels, diagnostic,
                   type_counts>>

Next ==
    \/ CheckFiles
    \/ LoadCSV
    \/ Preprocess
    \/ CreateDatabase
    \/ ExecuteQueries
    \/ Render
    \/ SaveFigure
    \/ Export

Spec == Init /\ [][Next]_vars

----------------------------------------------------------------------------
(* Query 2 on its own, over grouped counts of any size                     *)

TypeNames == <<"Phishing", "Malware", "DDoS", "Ransomware", "Insider",
               "Data Leak", "Unauthorized Access">>

\* the record counts a type may have in the incidents table; 0: no record
CountChoices == <<{0, 7, 161}, {0, 6, 160}, {0, 5, 158}, {0, 4, 157},
                  {0, 3, 156}, {0, 2, 155}, {0, 1}>>

GroupedCounts ==
    {[ty \in {TypeNames[i] : i \in {j \in 1..7 : v[j] > 0}} |->
         v[CHOOSE i \in 1..7 : TypeNames[i] = ty]] :
       v \in CountChoices[1] \X CountChoices[2] \X CountChoices[3]
             \X CountChoices[4] \X CountChoices[5] \X CountChoices[6]
             \X CountChoices[7]}

\* the incidents table is given by its grouped counts alone; the files and
\* their records are not represented
InitPct ==
    /\ Fresh
    /\ FirstRun
    /\ fs = <<>> /\ csv_columns = <<>> /\ csv_rows = <<>>
    /\ store = "writable"
    /\ pc = "type_query"
    /\ type_counts \in GroupedCounts

\* lines 123-134 applied to the grouped counts
TypeQuery ==
    /\ pc = "type_query"
    /\ incident_type_df' \in incident_type_query(type_counts)
    /\ pc' = "type_rows"
    /\ UNCHANGED <<session, archive>>
    /\ UNCHANGED <<inputs, frames, conn, db, mttr_df, vuln_hotspot_df,
                   phishing_trend_df, severity_df, vuln_age_df,
                   vuln_age_pivot, vuln_type_df, status_df, critical_df,
                   panels, outputs, diagnostic, type_counts>>

NextPct == TypeQuery

SpecPct == InitPct /\ [][NextPct]_vars

----------------------------------------------------------------------------
(* The script started again on the same files, in the same directory       *)

\* runs on files that may be missing or unreadable; the records are the
\* default ones
InitRerun ==
    /\ Fresh
    /\ FirstRun
    /\ pc = "check_files"
    /\ type_counts = <<>>
    /\ InitFiles

\* time passes while the script runs and between two runs
Tick ==
    /\ clock < 9 * 60 + 58 + MaxMinutes
    /\ clock' = clock + 1
    /\ UNCHANGED <<pc, inputs, frames, conn, db, results, panels, outputs,
                   diagnostic, type_counts, run, archive>>

\* lines 455-457: the script that has ended is run again; the input files
\* and the files written to the working directory are as the last run left
\* them, everything the process held is gone
Rerun ==
    /\ pc \in {"done", "exit1", "crashed"}
    /\ run < MaxRuns
    /\ run' = run + 1
    /\ pc' = "check_files"
    /\ incidents_df' = EmptyFrame
    /\ vulnerabilities_df' = EmptyFrame
    /\ phishing_df' = EmptyFrame
    /\ conn' = "none"
    /\ db' = <<>>
    /\ mttr_df' = <<>> /\ incident_type_df' = <<>> /\ vuln_hotspot_df' = <<>>
    /\ phishing_trend_df' = <<>> /\ severity_df' = {} /\ vuln_age_df' = <<>>
    /\ vuln_age_pivot' = [index |-> <<>>, columns |-> <<>>, cell |-> <<>>]
    /\ vuln_type_df' = <<>> /\ status_df' = {} /\ critical_df' = <<>>
    /\ panels' = [p \in 1..9 |-> "blank"]
    /\ outputs' = {}
    /\ diagnostic' = NoDiagnostic
    /\ type_counts' = <<>>
    /\ UNCHANGED <<inputs, clock, archive>>

NextRerun ==
    \/ Next
    \/ Tick
    \/ Rerun

SpecRerun == InitRerun /\ [][NextRerun]_vars

----------------------------------------------------------------------------
(* Properties                                                              *)

\* the nine queries have returned
Queried == pc \in {"render", "save", "export", "done"}

\* the run has ended
Ended == pc \in {"exit1", "crashed", "done"}

VulnRows == db.vulnerabilities.rows

\* the Open vulnerabilities of a department
OpenIn(d) == {i \in DOMAIN VulnRows : /\ VulnRows[i].Solution_Status = "Open"
                                      /\ VulnRows[i].Department = d}

OpenDepartments ==
    {VulnRows[i].Department :
        i \in {j \in DOMAIN VulnRows : VulnRows[j].Solution_Status = "Open"}}

\* the range of days-open each band stands for
InBand(g, days) ==
    CASE g = "< 30 days"   -> days < 30
      [] g = "30-90 days"  -> 30 <= days /\ days <= 90
      [] g = "91-180 days" -> 91 <= days /\ days <= 180
      [] g = "> 180 days"  -> days > 180

\* the Count the aging rows give for a department and a band; 0: no row
AgingCount(d, g) ==
    LET hit == {k \in DOMAIN vuln_age_df : /\ vuln_age_df[k].Department = d
                                           /\ vuln_age_df[k].Age_Group = g}
    IN SumOver(hit, [k \in hit |-> vuln_age_df[k].Count])

\* C1: every Open vulnerability with a days-open value is counted in
\* exactly one aging row, the row of its department and of the band whose
\* range holds its days-open (both ends of the two middle bands included):
\* per department and band the Count is the number of Open vulnerabilities
\* in that range (a missing days-open is counted with '> 180 days'), no row
\* has Count 0, and 29, 30, 90, 91, 180, 181 fall into the bands named.
C1_AgingBandsTotalExclusive ==
    Queried =>
      /\ \A i \in DOMAIN VulnRows :
            (VulnRows[i].Solution_Status = "Open"
             /\ VulnRows[i].Days_Open # NULL) =>
               Cardinality({k \in DOMAIN vuln_age_df :
                   /\ vuln_age_df[k].Department = VulnRows[i].Department
                   /\ InBand(vuln_age_df[k].Age_Group,
                             VulnRows[i].Days_Open)}) = 1
      /\ \A d \in OpenDepartments : \A g \in Range(AgeGroups) :
            AgingCount(d, g) =
               Cardinality({i \in OpenIn(d) :
                   IF VulnRows[i].Days_Open = NULL THEN g = "> 180 days"
                   ELSE InBand(g, VulnRows[i].Days_Open)})
      /\ \A k \in DOMAIN vuln_age_df : vuln_age_df[k].Count > 0
      /\ Age_Group(29) = "< 30 days"
      /\ Age_Group(30) = "30-90 days" /\ Age_Group(90) = "30-90 days"
      /\ Age_Group(91) = "91-180 days" /\ Age_Group(180) = "91-180 days"
      /\ Age_Group(181) = "> 180 days"

\* the aging rows count vulnerabilities of 30 and of 90 days in one row
C1_Witness ==
    /\ Queried
    /\ {30, 90} \subseteq {VulnRows[i].Days_Open : i \in OpenIn("IT")}
    /\ AgingCount("IT", "30-90 days") = 2

\* C2: the aging matrix has one row per department with an Open
\* vulnerability, its columns are the four bands in the canonical order,
\* and each cell is the number of that department's Open vulnerabilities
\* in that band, zero where there are none.
C2_AgingMatrixCanonical ==
    (Queried /\ OpenDepartments # {}) =>
      /\ Range(vuln_age_pivot.index) = OpenDepartments
      /\ Len(vuln_age_pivot.index) = Cardinality(OpenDepartments)
      /\ vuln_age_pivot.columns = AgeGroups
      /\ \A d \in OpenDepartments : \A g \in Range(AgeGroups) :
            vuln_age_pivot.cell[<<d, g>>] = AgingCount(d, g)

\* whether the summary table shown on panel p is empty
TableEmpty(p) ==
    CASE p = 1 -> mttr_df = <<>>
      [] p = 2 -> incident_type_df = <<>>
      [] p = 3 -> vuln_hotspot_df = <<>>
      [] p = 4 -> phishing_trend_df = <<>>
      [] p = 5 -> severity_df = {}
      [] p = 6 -> vuln_age_df = <<>>
      [] p = 7 -> vuln_type_df = <<>>
      [] p = 8 -> status_df = {}
      [] p = 9 -> critical_df = <<>>

\* C3: once the panels are rendered, every panel whose summary table is
\* empty shows an explicit no-data text.
C3_EmptyTableShowsNoData ==
    pc \in {"save", "export", "done"} =>
       \A p \in 1..9 :
          TableEmpty(p) => panels[p] \in {"No data", "No critical"}

\* a Click_Rate cell of the phishing file that is no number once its percent
\* signs are stripped
UnparsedClickRate ==
    /\ fs["phishing"] = "ok"
    /\ "Click_Rate" \in csv_columns["phishing"]
    /\ \E i \in DOMAIN csv_rows["phishing"] :
          ~IsFloatText(rstrip(csv_rows["phishing"][i].Click_Rate, "%"))

\* the input files a run cannot load or parse
Offending ==
    {f \in CSV_FILES : fs[f] # "ok"}
       \cup (IF UnparsedClickRate THEN {"phishing"} ELSE {})

\* C4: when an input file is missing or unreadable or a column cannot be
\* parsed, the run never gets past loading and validation, creates or
\* modifies no output, and ends with a diagnostic naming the offending
\* files.
C4_LoadFailureAbortsCleanly ==
    Offending # {} =>
      /\ pc \in {"check_files", "load_csv", "preprocess", "exit1", "crashed"}
      /\ outputs = {}
      /\ Ended => Offending \subseteq diagnostic.files

IncidentRows == db.incidents.rows

\* position of the first record of a type in the incidents table
FirstRecord(ty) ==
    CHOOSE i \in DOMAIN IncidentRows :
       /\ IncidentRows[i].Incident_Type = ty
       /\ \A j \in 1..(i - 1) : IncidentRows[j].Incident_Type # ty

EmittedTypes == {incident_type_df[k].Incident_Type :
                    k \in DOMAIN incident_type_df}

\* at most six rows, one per type, with the type's record count, ordered by
\* count descending, and no type left out has more records than one kept
TopTypesByCount ==
    /\ Len(incident_type_df) <= TOP_TYPES
    /\ Len(incident_type_df) = Cardinality(EmittedTypes)
    /\ \/ Len(incident_type_df) = TOP_TYPES
       \/ EmittedTypes = DOMAIN type_counts
    /\ \A k \in DOMAIN incident_type_df :
          /\ incident_type_df[k].Incident_Type \in DOMAIN type_counts
          /\ incident_type_df[k].Count =
                Cardinality({i \in DOMAIN IncidentRows :
                    IncidentRows[i].Incident_Type =
                       incident_type_df[k].Incident_Type})
    /\ \A j, k \in DOMAIN incident_type_df :
          j < k => incident_type_df[j].Count >= incident_type_df[k].Count
    /\ \A ty \in DOMAIN type_counts \ EmittedTypes :
          \A k \in DOMAIN incident_type_df :
             type_counts[ty] <= incident_type_df[k].Count

\* types with equal counts appear in the order of their first records, and
\* at the cutoff the types with the earlier first records are the ones kept
TiesInInputOrder ==
    /\ \A j, k \in DOMAIN incident_type_df :
          (j < k /\ incident_type_df[j].Count = incident_type_df[k].Count)
             => FirstRecord(incident_type_df[j].Incident_Type)
                   < FirstRecord(incident_type_df[k].Incident_Type)
    /\ \A ty \in DOMAIN type_counts \ EmittedTypes :
          \A k \in DOMAIN incident_type_df :
             type_counts[ty] = incident_type_df[k].Count
                => FirstRecord(incident_type_df[k].Incident_Type)
                      < FirstRecord(ty)

\* C5 as claimed: Top Incident Types is the top six by count, and equal
\* counts are ranked, and cut off, in the order of their first records.
C5_TopTypesStableTies == Queried => (TopTypesByCount /\ TiesInInputOrder)

\* C5 as amended: Top Incident Types returns at most six rows, one per
\* type with its record count, ordered by count descending, and no type
\* left out has strictly more records than a type kept.
C5_TopTypesByCount == Queried => TopTypesByCount

\* more than six types, and a type left out that ties with the sixth row
C5_Witness ==
    /\ Queried
    /\ Cardinality(DOMAIN type_counts) > TOP_TYPES
    /\ Len(incident_type_df) = TOP_TYPES
    /\ \E ty \in DOMAIN type_counts \ EmittedTypes :
          type_counts[ty] = incident_type_df[TOP_TYPES].Count

----------------------------------------------------------------------------
(* Percentages, in tenths of a percent                                     *)

TotalRecords == SumOver(DOMAIN type_counts, type_counts)

PercentageSum ==
    SumSeq([k \in DOMAIN incident_type_df |-> incident_type_df[k].Percentage])

EmittedCount ==
    SumSeq([k \in DOMAIN incident_type_df |-> incident_type_df[k].Count])

Abs(x) == IF x < 0 THEN 0 - x ELSE x

\* each Percentage is Count * 100 / total to within half a tenth
RowsRounded ==
    \A k \in DOMAIN incident_type_df :
       2 * Abs(incident_type_df[k].Percentage * TotalRecords
               - 1000 * incident_type_df[k].Count) <= TotalRecords

\* with every type emitted the sum is 100 to within half a tenth per row
SumsTo100 ==
    Cardinality(DOMAIN type_counts) <= TOP_TYPES =>
       2 * Abs(PercentageSum - 1000) <= Len(incident_type_df)

\* C6 as claimed: every percentage is the rounded share, without truncation
\* the percentages sum to 100 up to rounding, and with truncation the six
\* percentages sum to at most 100.
C6_PercentagesAtMost100 ==
    (pc = "type_rows" /\ incident_type_df # <<>>) =>
      /\ RowsRounded
      /\ SumsTo100
      /\ Cardinality(DOMAIN type_counts) > TOP_TYPES => PercentageSum <= 1000

\* C6 as amended: every percentage is the rounded share, without truncation
\* the percentages sum to 100 up to rounding, and with truncation the six
\* percentages sum to at most the share of the emitted records plus half a
\* tenth per row, hence to less than 100.3.
C6_PercentagesUpToRounding ==
    (pc = "type_rows" /\ incident_type_df # <<>>) =>
      /\ RowsRounded
      /\ SumsTo100
      /\ Cardinality(DOMAIN type_counts) > TOP_TYPES =>
            /\ 2 * Abs(PercentageSum * TotalRecords - 1000 * EmittedCount)
                  <= TOP_TYPES * TotalRecords
            /\ PercentageSum <= 1000 + 2

\* seven types, six emitted, and their percentages sum to 100.1
C6_Witness ==
    /\ pc = "type_rows"
    /\ Cardinality(DOMAIN type_counts) > TOP_TYPES
    /\ Len(incident_type_df) = TOP_TYPES
    /\ PercentageSum = 1001

----------------------------------------------------------------------------
(* Click rate, MTTR, connection, optional columns                          *)

\* the text does not end in a percent sign
LacksMarker(text) == text = <<>> \/ text[Len(text)] # "%"

\* the text is a number followed by one percent sign
NumberWithMarker(text) ==
    ~LacksMarker(text) /\ IsFloatText(SubSeq(text, 1, Len(text) - 1))

\* C7: a click rate that is a number followed by '%' is converted to that
\* number, by the loader and by the Phishing Trend query alike, and a click
\* rate without the trailing '%' never gets through either of them as a
\* numeric click rate.
C7_MalformedClickRateFlagged ==
    /\ "Click_Rate_Percent" \in phishing_df.columns =>
          \A i \in DOMAIN phishing_df.rows :
             LET text == phishing_df.rows[i].Click_Rate
             IN /\ ~LacksMarker(text)
                /\ NumberWithMarker(text) =>
                      SameNumber(phishing_df.rows[i].Click_Rate_Percent,
                                 FloatOf(SubSeq(text, 1, Len(text) - 1)))
    /\ Queried =>
          /\ Len(phishing_trend_df) = Len(db.phishing_campaigns.rows)
          /\ \A i \in DOMAIN db.phishing_campaigns.rows :
                LET text == db.phishing_campaigns.rows[i].Click_Rate
                IN /\ ~LacksMarker(text)
                   /\ NumberWithMarker(text) =>
                         \E k \in DOMAIN phishing_trend_df :
                            SameNumber(
                               phishing_trend_df[k].Click_Rate_Percent,
                               FloatOf(SubSeq(text, 1, Len(text) - 1)))

\* the incidents MTTR Trend is about
Eligible ==
    {i \in DOMAIN csv_rows["incidents"] :
        /\ csv_rows["incidents"][i].Status = "Resolved"
        /\ csv_rows["incidents"][i].Response_Time_Min # NULL}

\* calendar month of the report date of record i; NaT when it has none
ReportMonth(i) ==
    LET c == csv_rows["incidents"][i].Date_Reported
    IN IF IsDateText(c) THEN <<c[1], c[2]>> ELSE NaT

\* C8: MTTR Trend has exactly one row per calendar month holding a Resolved
\* incident with a response time, in ascending month order, and each row
\* gives the number of those incidents, the number of them that are
\* Critical, and the mean of their minutes divided by 60 rounded to one
\* decimal.
C8_MttrOneRowPerMonth ==
    Queried =>
      LET months == {ReportMonth(i) : i \in Eligible} \ {NaT}
          Of(m) == {i \in Eligible : ReportMonth(i) = m}
          Minutes(m) == SumOver(Of(m),
                           [i \in Of(m) |->
                              csv_rows["incidents"][i].Response_Time_Min])
      IN /\ Len(mttr_df) = Cardinality(months)
         /\ {mttr_df[k].Month : k \in DOMAIN mttr_df} = months
         /\ \A j, k \in DOMAIN mttr_df :
               j < k => MonthKey(mttr_df[j].Month) < MonthKey(mttr_df[k].Month)
         /\ \A k \in DOMAIN mttr_df :
               LET m == mttr_df[k].Month
               IN /\ mttr_df[k].Total_Incidents = Cardinality(Of(m))
                  /\ mttr_df[k].Critical_Incidents =
                        Cardinality({i \in Of(m) :
                           csv_rows["incidents"][i].Severity = "Critical"})
                  /\ mttr_df[k].Critical_Incidents
                        <= mttr_df[k].Total_Incidents
                  /\ 2 * Abs(mttr_df[k].Avg_Response_Hours * 60
                                * Cardinality(Of(m)) - 10 * Minutes(m))
                        <= 60 * Cardinality(Of(m))

\* C9: a run that opened the connection has closed it when it ends, and
\* rendering, saving and exporting run with the connection closed.
C9_ConnectionReleased ==
    /\ (Ended /\ conn # "none") => conn = "closed"
    /\ pc \in {"render", "save", "export"} => conn = "closed"

\* C10: a run on readable files, one of which lacks Response_Time_Min or
\* Click_Rate, raises nowhere: it does not end before the export.
C10_OptionalColumnsOptional ==
    (/\ \A f \in CSV_FILES : fs[f] = "ok"
     /\ store = "writable"
     /\ \/ "Response_Time_Min" \notin csv_columns["incidents"]
        \/ "Click_Rate" \notin csv_columns["phishing"])
       => pc \notin {"exit1", "crashed"}

\* the minutes in which some run saved the figure
SaveMinutes == {saved_at[k] : k \in DOMAIN saved_at}

\* the timestamped image of every run that saved the figure
StampedImages ==
    {dashboard_filename(strftime_YmdHM(t)) : t \in SaveMinutes}

\* C11 as stated: the image files present after a later run on the same
\* inputs are the two files the first saving run wrote, whenever the later
\* run takes place.
C11_RerunKeepsImageSet ==
    saved_at # <<>> =>
       images = {dashboard_filename(strftime_YmdHM(saved_at[1])),
                 latest_filename}

\* C11, amended: the image files present are the fixed 'latest' file, which
\* every saving run overwrites, and one timestamped file for each minute in
\* which a run saved: a later run overwrites the timestamped file only when
\* it saves within the same minute, and adds a new one otherwise.
C11_RerunAddsImagePerMinute ==
    /\ saved_at = <<>> => images = {}
    /\ saved_at # <<>> =>
          /\ latest_filename \in images
          /\ images = StampedImages \cup {latest_filename}
          /\ Cardinality(images) = 1 + Cardinality(SaveMinutes)

\* two runs have saved the figure, the second in a later minute than the
\* first, and three image files are present
C11_Witness ==
    /\ run = 2 /\ pc = "done"
    /\ Len(saved_at) = 2
    /\ saved_at[2] > saved_at[1]
    /\ Cardinality(images) = 3

====
